---- MODULE Spec2Model ----
(***************************************************************************)
(* Cloudflare DNS manager for Docker Swarm.                                *)
(*                                                                         *)
(* The model covers the reconciliation core of src/app.py (the polling     *)
(* engine CloudflareDNSManager) and the event engine of                    *)
(* src/docker_manager.py (DockerManager.monitor_services).  Strings are     *)
(* sequences of one-character strings, so that endswith, "in", split,      *)
(* lower and the two regular expressions are computed as Python computes   *)
(* them.                                                                   *)
(***************************************************************************)
EXTENDS Integers, Sequences, FiniteSets, TLC

VARIABLES
    variant,             \* "poll": app.py main loop; "event": docker_manager loop
    domain_config,       \* ordered domain table: sequence of [domain, zone_id, api_key],
                         \* <<>> until main has loaded it
    env,                 \* process environment: [SWARM_PUBLIC_IP, PUBLIC_IP, CLOUDFLARE_DOMAINS]
    swarm,               \* the cluster: service name -> labels (or Absent)
    processed_services,  \* set of keys "name:hostname" (self.processed_services)
    pc,                  \* position of the monitoring loop
    services,            \* the listed snapshot being walked (local `services`), <<>> once walked
    idx,                 \* position in `services`
    events,              \* service events in flight on the Docker event stream
    confirmed,           \* history: <<name, hostname>> with a found lookup or a successful create
    retry,               \* history: what the latest pass left undone, until the cluster changes
    last                 \* history: what the last step of the loop did

vars == <<variant, domain_config, env, swarm, processed_services, pc,
          services, idx, events, confirmed, retry, last>>

(***************************************************************************)
(* Strings                                                                 *)
(***************************************************************************)
Absent == "absent"   \* None / an unset environment variable / a service not deployed

\* s[i..] starts with t (1-based i)
IsPrefixAt(s, t, i) ==
    /\ i >= 1
    /\ i + Len(t) - 1 <= Len(s)
    /\ \A j \in 1..Len(t) : s[i + j - 1] = t[j]

\* Python: t in s
Contains(s, t) == \E i \in 1..(Len(s) - Len(t) + 1) : IsPrefixAt(s, t, i)

\* Python: s.endswith(t)
EndsWith(s, t) == Len(t) <= Len(s) /\ IsPrefixAt(s, t, Len(s) - Len(t) + 1)

\* first index >= from at which t occurs in s, 0 when there is none
FindFrom(s, t, from) ==
    LET hits == {i \in from..(Len(s) - Len(t) + 1) : IsPrefixAt(s, t, i)}
    IN  IF hits = {} THEN 0 ELSE CHOOSE i \in hits : \A k \in hits : i <= k

\* last index at which t occurs in s, 0 when there is none
FindLast(s, t) ==
    LET hits == {i \in 1..(Len(s) - Len(t) + 1) : IsPrefixAt(s, t, i)}
    IN  IF hits = {} THEN 0 ELSE CHOOSE i \in hits : \A k \in hits : i >= k

\* Python: s.split(sep)[0]
SplitFirst(s, sep) ==
    LET p == FindFrom(s, sep, 1)
    IN  IF p = 0 THEN s ELSE SubSeq(s, 1, p - 1)

\* Python: s.split(sep)[-1]
SplitLast(s, sep) ==
    LET p == FindLast(s, sep)
    IN  IF p = 0 THEN s ELSE SubSeq(s, p + Len(sep), Len(s))

UpperCase == <<"A","B","C","D","E","F","G","H","I","J","K","L","M",
               "N","O","P","Q","R","S","T","U","V","W","X","Y","Z">>
LowerCase == <<"a","b","c","d","e","f","g","h","i","j","k","l","m",
               "n","o","p","q","r","s","t","u","v","w","x","y","z">>

\* Python: s.lower()
Lower(s) ==
    [i \in 1..Len(s) |->
        IF \E k \in 1..Len(UpperCase) : UpperCase[k] = s[i]
        THEN LowerCase[CHOOSE k \in 1..Len(UpperCase) : UpperCase[k] = s[i]]
        ELSE s[i]]

\* string literals of the code
S_rule      == <<".","r","u","l","e">>                                   \* '.rule'
S_Host      == <<"H","o","s","t","(">>                                   \* 'Host('
S_cfproxied == <<".","c","l","o","u","d","f","l","a","r","e",
                 ".","p","r","o","x","i","e","d">>                       \* '.cloudflare.proxied'
S_dot       == <<".">>
S_colon     == <<":">>
S_true      == <<"t","r","u","e">>
BT          == "BACKTICK"   \* the backtick character (not writable in a TLA+ string)
DQ          == "\""         \* the double-quote character
UnsetIp     == "0.0.0.0"
None        == <<>>     \* a missing hostname: the code tests it with `not hostname`

(***************************************************************************)
(* RuleExtractor                                                           *)
(***************************************************************************)
\* re.search(r'Host\(Q([^Q]+)Q\)', rule) for a quote character Q: the group of
\* the leftmost match, None when nothing matches.  The group holds no Q, so
\* a match starting at i ends at the first Q after the opening one.
SearchHost(rule, q) ==
    LET open   == S_Host \o <<q>>
        close  == <<q, ")">>
        end(i) == FindFrom(rule, <<q>>, i + Len(open))
        starts == {i \in 1..Len(rule) :
                      /\ IsPrefixAt(rule, open, i)
                      /\ end(i) > i + Len(open)
                      /\ IsPrefixAt(rule, close, end(i))}
    IN  IF starts = {} THEN None
        ELSE LET i == CHOOSE k \in starts : \A m \in starts : k <= m
             IN  SubSeq(rule, i + Len(open), end(i) - 1)

\* extract_hostname_from_rule: backtick form first, then the double-quoted form
extract_hostname_from_rule(rule) ==
    IF SearchHost(rule, BT) # None THEN SearchHost(rule, BT)
    ELSE IF SearchHost(rule, DQ) # None THEN SearchHost(rule, DQ)
    ELSE None

\* mutant: a host matcher in the value makes a rule, whatever the key
IsRuleLabelAnyKey(kv) == Contains(kv[2], S_Host)

\* labels are an insertion-ordered dict: a sequence of <<key, value>>, keys distinct
IsRuleLabel(kv) == Contains(kv[1], S_rule) /\ Contains(kv[2], S_Host)

\* traefik_rules: the values of the rule labels, in label order
RECURSIVE TraefikRules(_, _)
TraefikRules(labels, n) ==
    IF n = 0 THEN <<>>
    ELSE IF IsRuleLabel(labels[n])
         THEN Append(TraefikRules(labels, n - 1), labels[n][2])
         ELSE TraefikRules(labels, n - 1)

\* key.split('.cloudflare.proxied')[0].split('.')[-1]
RouterName(key) == SplitLast(SplitFirst(key, S_cfproxied), S_dot)

\* d[k] = v on an insertion-ordered dict: an existing key keeps its place
DictSet(d, k, v) ==
    IF \E i \in 1..Len(d) : d[i][1] = k
    THEN [i \in 1..Len(d) |-> IF d[i][1] = k THEN <<k, v>> ELSE d[i]]
    ELSE Append(d, <<k, v>>)

\* proxied_settings: router name -> bool, in insertion order
RECURSIVE ProxiedSettings(_, _)
ProxiedSettings(labels, n) ==
    IF n = 0 THEN <<>>
    ELSE IF EndsWith(labels[n][1], S_cfproxied)
         THEN DictSet(ProxiedSettings(labels, n - 1),
                      RouterName(labels[n][1]),
                      Lower(labels[n][2]) = S_true)
         ELSE ProxiedSettings(labels, n - 1)

\* the loop `for router_name, proxy_setting in proxied_settings.items()` with its
\* break at the first router name found in the rule or in the service name
RECURSIVE DetermineProxiedFrom(_, _, _, _)
DetermineProxiedFrom(settings, rule, service_name, i) ==
    IF i > Len(settings) THEN TRUE
    ELSE IF Contains(rule, settings[i][1]) \/ Contains(service_name, settings[i][1])
         THEN settings[i][2]
         ELSE DetermineProxiedFrom(settings, rule, service_name, i + 1)

\* mutant: no break, so the last matching entry wins
RECURSIVE DetermineProxiedLast(_, _, _)
DetermineProxiedLast(settings, rule, service_name) ==
    IF settings = <<>> THEN TRUE
    ELSE LET n == Len(settings)
         IN  IF Contains(rule, settings[n][1]) \/ Contains(service_name, settings[n][1])
             THEN settings[n][2]
             ELSE DetermineProxiedLast(SubSeq(settings, 1, n - 1), rule, service_name)

DetermineProxied(settings, rule, service_name) ==
    DetermineProxiedFrom(settings, rule, service_name, 1)

(***************************************************************************)
(* DomainResolver                                                          *)
(***************************************************************************)
NoConfig == [zone_id |-> Absent, api_key |-> Absent]

\* get_domain_config: the first table entry, in table order, whose domain ends
\* the hostname
RECURSIVE GetDomainConfigFrom(_, _, _)
GetDomainConfigFrom(table, hostname, i) ==
    IF i > Len(table) THEN NoConfig
    ELSE IF EndsWith(hostname, table[i].domain)
         THEN [zone_id |-> table[i].zone_id, api_key |-> table[i].api_key]
         ELSE GetDomainConfigFrom(table, hostname, i + 1)

\* mutant: an unmatched hostname falls back to the first zone of the table
GetDomainConfigDefault(table, hostname) ==
    IF GetDomainConfigFrom(table, hostname, 1) = NoConfig /\ table # <<>>
    THEN [zone_id |-> table[1].zone_id, api_key |-> table[1].api_key]
    ELSE GetDomainConfigFrom(table, hostname, 1)

\* mutant: among the entries whose domain ends the hostname, the longest wins
GetDomainConfigLongest(table, hostname) ==
    LET hits == {i \in 1..Len(table) : EndsWith(hostname, table[i].domain)}
    IN  IF hits = {} THEN NoConfig
        ELSE LET i == CHOOSE k \in hits :
                         \A m \in hits : Len(table[k].domain) >= Len(table[m].domain)
             IN  [zone_id |-> table[i].zone_id, api_key |-> table[i].api_key]

get_domain_config(table, hostname) == GetDomainConfigFrom(table, hostname, 1)

(***************************************************************************)
(* DnsRecordClient                                                         *)
(***************************************************************************)
\* What the provider can answer to the GET: a record, an empty result, a
\* success=false body, a failure requests reports (transport error or HTTP
\* error status: RequestException), or a JSON body without the expected keys.
LookupResponses == {"record", "empty", "api_failure", "request_exception", "malformed"}

\* get_cloudflare_record: "found" (the record), "notfound" (None) or "raised"
\* (the KeyError of data["success"] is no RequestException and leaves the method)
get_cloudflare_record(resp) ==
    CASE resp = "request_exception" -> "notfound"
      [] resp = "malformed"         -> "raised"
      [] resp = "record"            -> "found"
      [] OTHER                      -> "notfound"

CreateResponses == {"success", "api_failure", "request_exception", "malformed"}

\* mutant: the ttl is the automatic one whatever proxied is
CreateDataTtlAuto(name, ip, proxied) ==
    [type |-> "A", name |-> name, content |-> ip, proxied |-> proxied, ttl |-> 1]

\* the JSON body of the POST
CreateData(name, ip, proxied) ==
    [type |-> "A", name |-> name, content |-> ip, proxied |-> proxied,
     ttl |-> IF proxied THEN 1 ELSE 300]

\* create_cloudflare_record: "ok" (True), "failed" (False) or "raised"
create_cloudflare_record(resp) ==
    CASE resp = "request_exception" -> "failed"
      [] resp = "malformed"         -> "raised"
      [] resp = "success"           -> "ok"
      [] OTHER                      -> "failed"

(***************************************************************************)
(* Cluster public address                                                  *)
(***************************************************************************)
\* what docker_client.info() can give: an active node, an inactive one, or an
\* exception
SwarmInfos == {"active", "inactive", "error"}

Getenv(e, name, default) == IF e[name] = Absent THEN default ELSE e[name]

\* mutant: PUBLIC_IP first, then SWARM_PUBLIC_IP, whatever the node state
GetSwarmNodeIpPublicFirst(info, e) ==
    Getenv(e, "PUBLIC_IP", Getenv(e, "SWARM_PUBLIC_IP", UnsetIp))

\* get_swarm_node_ip
get_swarm_node_ip(info, e) ==
    IF info = "active"
    THEN Getenv(e, "SWARM_PUBLIC_IP", UnsetIp)
    ELSE Getenv(e, "PUBLIC_IP", UnsetIp)

(***************************************************************************)
(* ReconciliationEngine: one rule, one service                             *)
(***************************************************************************)
\* service_key = f"{service_name}:{hostname}"
ServiceKey(service_name, hostname) == service_name \o S_colon \o hostname

\* mutant: the idempotency check never skips
AlreadyProcessedNever(processed, service_key) == FALSE

\* `if service_key in self.processed_services: continue`
AlreadyProcessed(processed, service_key) == service_key \in processed

\* mutant: a found record is not taken as existing
RecordExistsNever(existing_record) == FALSE

\* `if existing_record:`
RecordExists(existing_record) == existing_record = "found"

\* mutant: the existing record is marked by assignment instead of add
MarkExistingAssign(processed, service_key) == {service_key}

\* `self.processed_services.add(service_key)` after a found lookup
MarkExisting(processed, service_key) == processed \cup {service_key}

\* mutant: a successful create does not mark the key
MarkCreatedNever(processed, service_key, success) == processed

\* mutant: the key is marked whatever the create call returned
MarkCreatedAlways(processed, service_key, success) == processed \cup {service_key}

\* `if success: self.processed_services.add(service_key)`
MarkCreated(processed, service_key, success) ==
    IF success = "ok" THEN processed \cup {service_key} ELSE processed

\* mutant: creation is attempted with whatever address came back
ShouldCreateAlways(swarm_ip) == TRUE

\* `if swarm_ip != '0.0.0.0':`
ShouldCreate(swarm_ip) == swarm_ip # UnsetIp

\* What one iteration of `for rule in traefik_rules` did.
\*   outcome  which branch ended the iteration
\*   lookup   "none" (no GET sent) or what get_cloudflare_record returned
\*   zone_id  the zone the calls went to
\*   ip       the address get_swarm_node_ip gave, Absent when not asked
\*   info     what docker_client.info() answered inside get_swarm_node_ip,
\*            "none" when not asked
\*   create   "none" (no POST sent) or what create_cloudflare_record returned
\*   data     <<the POST body>> when a POST was sent, else <<>>
\*   marked   the iteration changed self.processed_services (set by ProcessRules)
StepRec(rule, hostname, outcome, lookup, zone_id, ip, create, data) ==
    [rule |-> rule, hostname |-> hostname, outcome |-> outcome, lookup |-> lookup,
     zone_id |-> zone_id, ip |-> ip, create |-> create, data |-> data,
     marked |-> FALSE, info |-> "none"]

\* The not-found branch of one rule (lines 208-222): every way it can go.
CreateBranch(e, service_name, rule, hostname, existing_record, zone_id, proxied, processed) ==
    UNION {
        LET swarm_ip == get_swarm_node_ip(info, e)
            asked(st) == [st EXCEPT !.info = info]
        IN  IF ShouldCreate(swarm_ip)
            THEN { LET success == create_cloudflare_record(resp)
                       data    == <<CreateData(hostname, swarm_ip, proxied)>>
                   IN  IF success = "raised"
                       THEN [processed |-> processed, exc |-> TRUE,
                             step |-> asked(StepRec(rule, hostname, "create_raised",
                                                    existing_record, zone_id, swarm_ip,
                                                    "raised", data))]
                       ELSE [processed |-> MarkCreated(processed,
                                               ServiceKey(service_name, hostname), success),
                             exc |-> FALSE,
                             step |-> asked(StepRec(rule, hostname,
                                                    IF success = "ok" THEN "created"
                                                                      ELSE "create_failed",
                                                    existing_record, zone_id, swarm_ip,
                                                    success, data))]
                   : resp \in CreateResponses }
            ELSE { [processed |-> processed, exc |-> FALSE,
                    step |-> asked(StepRec(rule, hostname, "no_ip", existing_record,
                                           zone_id, swarm_ip, "none", <<>>))] }
        : info \in SwarmInfos }

\* One iteration of `for rule in traefik_rules` (lines 173-222): the set of
\* [processed, exc, step] it can end in, over every provider and cluster answer.
\* exc: an exception left the iteration.
ProcessRule(table, e, service_name, rule, settings, processed) ==
    LET hostname    == extract_hostname_from_rule(rule)
        service_key == ServiceKey(service_name, hostname)
        config      == get_domain_config(table, hostname)
        proxied     == DetermineProxied(settings, rule, service_name)
        skip(why)   == { [processed |-> processed, exc |-> FALSE,
                          step |-> StepRec(rule, hostname, why, "none", Absent,
                                           Absent, "none", <<>>)] }
    IN  IF hostname = None THEN skip("no_hostname")
        ELSE IF AlreadyProcessed(processed, service_key) THEN skip("already")
        ELSE IF config = NoConfig THEN skip("no_config")
        ELSE UNION {
            LET existing_record == get_cloudflare_record(resp)
            IN  IF existing_record = "raised"
                THEN { [processed |-> processed, exc |-> TRUE,
                        step |-> StepRec(rule, hostname, "lookup_raised", "raised",
                                         config.zone_id, Absent, "none", <<>>)] }
                ELSE IF RecordExists(existing_record)
                THEN { [processed |-> MarkExisting(processed, service_key),
                        exc |-> FALSE,
                        step |-> StepRec(rule, hostname, "exists", existing_record,
                                         config.zone_id, Absent, "none", <<>>)] }
                ELSE CreateBranch(e, service_name, rule, hostname, existing_record,
                                  config.zone_id, proxied, processed)
            : resp \in LookupResponses }

\* mutant: a hostname without domain configuration ends the loop (return in
\* place of continue)
RECURSIVE ProcessRulesStopAtNoConfig(_, _, _, _, _, _, _, _)
ProcessRulesStopAtNoConfig(table, e, service_name, rules, settings, i, processed, steps) ==
    IF i > Len(rules)
    THEN { [processed |-> processed, steps |-> steps, exc |-> FALSE] }
    ELSE UNION {
        LET logged == Append(steps, [r.step EXCEPT !.marked = (r.processed # processed)])
        IN  IF r.exc
            THEN { [processed |-> r.processed, steps |-> logged, exc |-> TRUE] }
            ELSE IF r.step.outcome = "no_config"
            THEN { [processed |-> r.processed, steps |-> logged, exc |-> FALSE] }
            ELSE ProcessRulesStopAtNoConfig(table, e, service_name, rules, settings, i + 1,
                                            r.processed, logged)
        : r \in ProcessRule(table, e, service_name, rules[i], settings, processed) }

\* The loop over traefik_rules from rule i on: an exception ends it.
RECURSIVE ProcessRules(_, _, _, _, _, _, _, _)
ProcessRules(table, e, service_name, rules, settings, i, processed, steps) ==
    IF i > Len(rules)
    THEN { [processed |-> processed, steps |-> steps, exc |-> FALSE] }
    ELSE UNION {
        LET logged == Append(steps, [r.step EXCEPT !.marked = (r.processed # processed)])
        IN  IF r.exc
            THEN { [processed |-> r.processed, steps |-> logged, exc |-> TRUE] }
            ELSE ProcessRules(table, e, service_name, rules, settings, i + 1,
                              r.processed, logged)
        : r \in ProcessRule(table, e, service_name, rules[i], settings, processed) }

\* mutant: no try/except around the body, the exception leaves the method
ProcessServiceLabelsNoCatch(table, e, service, processed) ==
    IF service.labels = <<>>
    THEN { [processed |-> processed, steps |-> <<>>, caught |-> FALSE,
            escaped |-> FALSE, rules |-> <<>>, settings |-> <<>>] }
    ELSE LET traefik_rules    == TraefikRules(service.labels, Len(service.labels))
             proxied_settings == ProxiedSettings(service.labels, Len(service.labels))
         IN  { [processed |-> r.processed, steps |-> r.steps, caught |-> FALSE,
                escaped |-> r.exc, rules |-> traefik_rules,
                settings |-> proxied_settings]
               : r \in ProcessRules(table, e, service.name, traefik_rules,
                                    proxied_settings, 1, processed, <<>>) }

\* process_service_labels(service): the set of results of one call.
\*   caught   an exception was raised inside and logged by `except Exception`
\*   escaped  an exception left the method
\*   rules, settings  traefik_rules and proxied_settings as the label loop left
\*                    them (empty when the method returned before the loop)
ProcessServiceLabels(table, e, service, processed) ==
    IF service.labels = <<>>
    THEN { [processed |-> processed, steps |-> <<>>, caught |-> FALSE,
            escaped |-> FALSE, rules |-> <<>>, settings |-> <<>>] }
    ELSE LET traefik_rules    == TraefikRules(service.labels, Len(service.labels))
             proxied_settings == ProxiedSettings(service.labels, Len(service.labels))
         IN  { [processed |-> r.processed, steps |-> r.steps, caught |-> r.exc,
                escaped |-> FALSE, rules |-> traefik_rules,
                settings |-> proxied_settings]
               : r \in ProcessRules(table, e, service.name, traefik_rules,
                                    proxied_settings, 1, processed, <<>>) }

(***************************************************************************)
(* The cluster, the configuration and the environment the engine runs in   *)
(***************************************************************************)
N_web == <<"w","e","b">>                                                 \* web
N_api == <<"a","p","i">>                                                 \* api
ServiceNames == {N_web, N_api}

H_app == <<"a","p","p",".","e","x","a","m","p","l","e",".","c","o","m">> \* app.example.com
H_api == <<"a","p","i",".","e","x","a","m","p","l","e",".","c","o","m">> \* api.example.com
H_sub == <<"s","u","b",".","u","n","k","n","o","w","n",".","t","l","d">> \* sub.unknown.tld
D_example == <<"e","x","a","m","p","l","e",".","c","o","m">>             \* example.com

K_routers == <<"t","r","a","e","f","i","k",".","h","t","t","p",".",
               "r","o","u","t","e","r","s",".">>                         \* traefik.http.routers.
V_false == <<"f","a","l","s","e">>
V_True  == <<"T","r","u","e">>

HostRule(q, hostname) == S_Host \o <<q>> \o hostname \o <<q, ")">>   \* Host(`hostname`)
RuleKey(router)       == K_routers \o router \o S_rule                \* ...routers.<router>.rule
ProxiedKey(router)    == K_routers \o router \o S_cfproxied           \* ...<router>.cloudflare.proxied
R_app == <<"a","p","p">>

\* The label mappings a service can be deployed with.
LabelSets == <<
    \* 1: no labels
    <<>>,
    \* 2: one rule (end-to-end scenario 1)
    << <<RuleKey(N_web), HostRule(BT, H_app)>> >>,
    \* 3: one rule and its proxy toggle set to false (end-to-end scenario 2)
    << <<RuleKey(N_web), HostRule(BT, H_app)>>,
       <<ProxiedKey(N_web), V_false>> >>,
    \* 4: two toggles that both match service web; router app comes first
    << <<ProxiedKey(R_app), V_True>>,
       <<ProxiedKey(N_web), V_false>>,
       <<RuleKey(N_web), HostRule(BT, H_app)>> >>,
    \* 5: the same two toggles, router web first
    << <<ProxiedKey(N_web), V_false>>,
       <<ProxiedKey(R_app), V_True>>,
       <<RuleKey(N_web), HostRule(BT, H_app)>> >>,
    \* 6: three rules: no host matcher to extract, an unconfigured domain
    \*    (double-quoted), a configured one
    << <<RuleKey(R_app), S_Host \o H_app \o <<")">> >>,
       <<RuleKey(N_web), HostRule(DQ, H_sub)>>,
       <<RuleKey(N_api), HostRule(BT, H_api)>> >>,
    \* 7: two rules with configured hostnames
    << <<RuleKey(N_web), HostRule(BT, H_app)>>,
       <<RuleKey(N_api), HostRule(BT, H_api)>> >>,
    \* 8: two rules for the same hostname
    << <<RuleKey(N_web), HostRule(BT, H_app)>>,
       <<RuleKey(N_api), HostRule(DQ, H_app)>> >>,
    \* 9: no routing-rule key: a proxy toggle, and a host matcher under a key
    \*    that is no rule key
    << <<ProxiedKey(N_web), V_false>>,
       <<K_routers \o N_web \o S_dot \o R_app, HostRule(BT, H_app)>> >>
>>

NotDeployed == 0
LabelIds == 1..Len(LabelSets)

\* the label mappings each service is deployed with
Deployable(name) == IF name = N_web THEN LabelIds ELSE {2, 7}

\* the Service object docker-py hands out: name and Spec.Labels
Service(name, labelId) == [name |-> name, labels |-> LabelSets[labelId]]

\* CLOUDFLARE_DOMAINS: the domain tables the process can be started with
DomainTables == {
    << [domain |-> D_example, zone_id |-> "Z1", api_key |-> "K1"],
       [domain |-> H_app,     zone_id |-> "Z2", api_key |-> "K2"] >>,
    << [domain |-> H_app,     zone_id |-> "Z2", api_key |-> "K2"],
       [domain |-> D_example, zone_id |-> "Z1", api_key |-> "K1"] >> }

\* The texts CLOUDFLARE_DOMAINS can hold: the empty object, text that is no
\* JSON, and an object for each domain table (its entries in table order)
J_empty     == "{}"
J_malformed == "{example.com: "
J_wide      == "{example.com: Z1/K1, app.example.com: Z2/K2}"
J_narrow    == "{app.example.com: Z2/K2, example.com: Z1/K1}"
ConfigTexts == {J_empty, J_malformed, J_wide, J_narrow}

\* json.loads(text): the parsed object, or a JSONDecodeError
json_loads(text) ==
    CASE text = J_empty  -> [error |-> FALSE, value |-> <<>>]
      [] text = J_wide   -> [error |-> FALSE,
                             value |-> CHOOSE t \in DomainTables : t[1].domain = D_example]
      [] text = J_narrow -> [error |-> FALSE,
                             value |-> CHOOSE t \in DomainTables : t[1].domain = H_app]
      [] OTHER           -> [error |-> TRUE, value |-> <<>>]

\* SWARM_PUBLIC_IP and PUBLIC_IP, each set or not, and CLOUDFLARE_DOMAINS
Environments == [SWARM_PUBLIC_IP : {Absent, "1.2.3.4"}, PUBLIC_IP : {Absent, "5.6.7.8"},
                 CLOUDFLARE_DOMAINS : {Absent} \cup ConfigTexts]

MaxQueue == 1    \* events in flight on the event stream

(***************************************************************************)
(* State                                                                   *)
(***************************************************************************)
\* what a pass over a service left undone: the hostnames whose create call
\* reported failure and those it had no public address for
NoRetry == [name |-> None, labelId |-> NotDeployed, failed |-> {}, no_ip |-> {}]

RetryOf(entry, steps) ==
    [name    |-> entry.name,
     labelId |-> entry.labelId,
     failed  |-> {steps[k].hostname : k \in {j \in 1..Len(steps) : steps[j].create = "failed"}},
     no_ip   |-> {steps[k].hostname : k \in {j \in 1..Len(steps) :
                                                /\ steps[j].lookup = "notfound"
                                                /\ steps[j].ip = UnsetIp}}]

\* retry after a call of the callback or of process_service_labels
RetryAfter(entry, action, steps) ==
    IF action = "remove" THEN retry ELSE RetryOf(entry, steps)

\* what the pass before this one left undone, when it was over the same service
\* with the same labels
Owed(entry) ==
    IF retry.name = entry.name /\ retry.labelId = entry.labelId THEN retry ELSE NoRetry

NoStep == [kind |-> "none", name |-> None, labelId |-> NotDeployed, action |-> "none",
           before |-> {}, owed |-> NoRetry, steps |-> <<>>, caught |-> FALSE,
           escaped |-> FALSE, idx |-> 0, n |-> 0, rules |-> <<>>, settings |-> <<>>]

\* the record of one call of the per-service processing
\*   before  self.processed_services when the call began
\*   owed    what the previous pass over this service left undone
PassRec(entry, action, before, r, i, n) ==
    [kind |-> "pass", name |-> entry.name, labelId |-> entry.labelId, action |-> action,
     before |-> before, owed |-> Owed(entry), steps |-> r.steps,
     caught |-> r.caught, escaped |-> r.escaped, idx |-> i, n |-> n,
     rules |-> r.rules, settings |-> r.settings]

\* a step of the loop that processed no service
OtherRec(kind) == [NoStep EXCEPT !.kind = kind]

\* the pairs a pass confirmed: a lookup that found a record, a create that succeeded
ConfirmedBy(name, steps) ==
    { <<name, steps[k].hostname>> : k \in {j \in 1..Len(steps) :
                                            \/ steps[j].lookup = "found"
                                            \/ steps[j].create = "ok"} }

\* docker_client.services.list(): the deployed services, in some order
Listings ==
    LET present == {nm \in ServiceNames : swarm[nm] # NotDeployed}
        n       == Cardinality(present)
        orders  == {o \in [1..n -> present] : \A i, j \in 1..n : o[i] = o[j] => i = j}
    IN  { [i \in 1..n |-> [name |-> o[i], labelId |-> swarm[o[i]]]] : o \in orders }

Init ==
    /\ variant \in {"poll", "event"}
    /\ domain_config = <<>>
    /\ env \in Environments
    /\ swarm \in {f \in [ServiceNames -> {NotDeployed} \cup LabelIds] :
                    \A nm \in ServiceNames : f[nm] \in {NotDeployed} \cup Deployable(nm)}
    /\ processed_services = {}
    /\ pc = "start"
    /\ services = <<>>
    /\ idx = 0
    /\ events = <<>>
    /\ confirmed = {}
    /\ retry = NoRetry
    /\ last = NoStep

(***************************************************************************)
(* Startup: load_config_from_env and main (app.py)                         *)
(***************************************************************************)
\* load_config_from_env: json.loads of CLOUDFLARE_DOMAINS ('{}' when unset); a
\* JSONDecodeError is logged and gives the empty configuration
load_config_from_env(e) ==
    LET config_str == Getenv(e, "CLOUDFLARE_DOMAINS", J_empty)
        parsed     == json_loads(config_str)
    IN  IF parsed.error THEN <<>> ELSE parsed.value

\* mutant: main starts the manager whatever the configuration is
EntersLoopAlways(config) == TRUE

\* `if not domain_config: ... return`
EntersLoop(config) == config # <<>>

\* main: load the configuration; without one, log and return; else build the
\* manager and run its loop.  The event engine is started the same way.
Main ==
    /\ pc = "start"
    /\ domain_config' = load_config_from_env(env)
    /\ pc' = IF EntersLoop(domain_config') THEN "list" ELSE "exited"
    /\ last' = OtherRec("main")
    /\ UNCHANGED <<variant, env, swarm, processed_services, services, idx, events,
                   confirmed, retry>>

(***************************************************************************)
(* The polling engine: CloudflareDNSManager.monitor_services (app.py)      *)
(***************************************************************************)
\* mutant: the pass ends after its first service
PollAfterFirstOnly(escaped, i, n) == [pc |-> "list", idx |-> 0]

\* where the loop goes after processing services[idx]: an exception that left
\* process_service_labels is caught by the loop's own try/except, which ends the
\* pass; then time.sleep and the next pass
PollAfter(escaped, i, n) ==
    IF escaped \/ i >= n THEN [pc |-> "list", idx |-> 0] ELSE [pc |-> "process", idx |-> i + 1]

\* services = self.docker_client.services.list()
PollList ==
    /\ variant = "poll"
    /\ pc = "list"
    /\ \E listing \in Listings :
          /\ services' = listing
          /\ pc' = IF listing = <<>> THEN "list" ELSE "process"
          /\ idx' = IF listing = <<>> THEN 0 ELSE 1
    /\ last' = OtherRec("listed")
    /\ UNCHANGED <<variant, domain_config, env, swarm, processed_services, events, confirmed, retry>>

\* services.list() raises: logged by the loop's except, sleep, next pass
PollListFails ==
    /\ variant = "poll"
    /\ pc = "list"
    /\ last' = OtherRec("list_failed")
    /\ UNCHANGED <<variant, domain_config, env, swarm, processed_services, pc, services,
                   idx, events, confirmed, retry>>

\* self.process_service_labels(service) for the next service of the listing
PollProcess ==
    /\ variant = "poll"
    /\ pc = "process"
    /\ \E r \in ProcessServiceLabels(domain_config, env,
                                     Service(services[idx].name, services[idx].labelId),
                                     processed_services) :
          /\ processed_services' = r.processed
          /\ confirmed' = confirmed \cup ConfirmedBy(services[idx].name, r.steps)
          /\ retry' = RetryAfter(services[idx], "poll", r.steps)
          /\ last' = PassRec(services[idx], "poll", processed_services, r, idx, Len(services))
          /\ pc' = PollAfter(r.escaped, idx, Len(services)).pc
          /\ idx' = PollAfter(r.escaped, idx, Len(services)).idx
          /\ services' = IF pc' = "list" THEN <<>> ELSE services
    /\ UNCHANGED <<variant, domain_config, env, swarm, events>>

(***************************************************************************)
(* The event engine: DockerManager.monitor_services (docker_manager.py)    *)
(* with the callback the spec describes (section 4.4)                      *)
(***************************************************************************)
\* the callback: a remove event is logged and nothing else; create and update
\* run the per-service processing
HandleServiceEvent(table, e, service, action, processed) ==
    IF action = "remove"
    THEN { [processed |-> processed, steps |-> <<>>, caught |-> FALSE, escaped |-> FALSE,
            rules |-> <<>>, settings |-> <<>>] }
    ELSE ProcessServiceLabels(table, e, service, processed)

\* mutant: every event is handed to the callback as a create
CallbackActionCreate(event) == "create"

\* `callback(service, event['Action'])`
CallbackAction(event) == event.action

\* services = self.docker_client.services.list()
EventList ==
    /\ variant = "event"
    /\ pc = "list"
    /\ \E listing \in Listings :
          /\ services' = listing
          /\ pc' = IF listing = <<>> THEN "subscribe" ELSE "initial"
          /\ idx' = IF listing = <<>> THEN 0 ELSE 1
    /\ last' = OtherRec("listed")
    /\ UNCHANGED <<variant, domain_config, env, swarm, processed_services, events, confirmed, retry>>

\* services.list() raises: the outer except logs and re-raises
EventListFails ==
    /\ variant = "event"
    /\ pc = "list"
    /\ pc' = "stopped"
    /\ last' = OtherRec("list_failed")
    /\ UNCHANGED <<variant, domain_config, env, swarm, processed_services, services,
                   idx, events, confirmed, retry>>

\* `for service in services: callback(service, 'create')`; an exception leaving
\* the callback here reaches the outer except and ends the engine
EventInitial ==
    /\ variant = "event"
    /\ pc = "initial"
    /\ \E r \in HandleServiceEvent(domain_config, env,
                                   Service(services[idx].name, services[idx].labelId),
                                   "create", processed_services) :
          /\ processed_services' = r.processed
          /\ confirmed' = confirmed \cup ConfirmedBy(services[idx].name, r.steps)
          /\ retry' = RetryAfter(services[idx], "create", r.steps)
          /\ last' = PassRec(services[idx], "create", processed_services, r, idx,
                             Len(services))
          /\ pc' = IF r.escaped THEN "stopped"
                   ELSE IF idx >= Len(services) THEN "subscribe" ELSE "initial"
          /\ idx' = IF r.escaped \/ idx >= Len(services) THEN 0 ELSE idx + 1
          /\ services' = IF pc' = "initial" THEN services ELSE <<>>
    /\ UNCHANGED <<variant, domain_config, env, swarm, events>>

\* self.docker_client.events(filters=..., decode=True) answers
EventSubscribe ==
    /\ variant = "event"
    /\ pc = "subscribe"
    /\ pc' = "events"
    /\ last' = OtherRec("subscribed")
    /\ UNCHANGED <<variant, domain_config, env, swarm, processed_services, services,
                   idx, events, confirmed, retry>>

\* the subscription cannot be started, or the stream breaks while iterated:
\* the outer except logs and re-raises
EventStreamFails ==
    /\ variant = "event"
    /\ pc \in {"subscribe", "events"}
    /\ pc' = "stopped"
    /\ last' = OtherRec(IF pc = "subscribe" THEN "subscribe_failed" ELSE "stream_failed")
    /\ UNCHANGED <<variant, domain_config, env, swarm, processed_services, services,
                   idx, events, confirmed, retry>>

\* what services.get(service_id) can return for an event: the service as the
\* cluster holds it now, or, for a removed one, whatever the daemon still holds
Fetched(event) ==
    IF event.action = "remove"
    THEN { [name |-> event.name, labelId |-> l] : l \in Deployable(event.name) }
    ELSE IF swarm[event.name] # NotDeployed
         THEN { [name |-> event.name, labelId |-> swarm[event.name]] }
         ELSE {}

\* one event of the stream: services.get, then the callback; the inner
\* except logs whatever the callback raises
EventDispatch ==
    /\ variant = "event"
    /\ pc = "events"
    /\ events # <<>>
    /\ \E entry \in Fetched(Head(events)) :
       \E r \in HandleServiceEvent(domain_config, env, Service(entry.name, entry.labelId),
                                   CallbackAction(Head(events)), processed_services) :
          /\ processed_services' = r.processed
          /\ confirmed' = confirmed \cup ConfirmedBy(entry.name, r.steps)
          /\ retry' = RetryAfter(entry, CallbackAction(Head(events)), r.steps)
          /\ last' = [PassRec(entry, Head(events).action, processed_services, r, 0, 0)
                      EXCEPT !.kind = "event"]
    /\ events' = Tail(events)
    /\ UNCHANGED <<variant, domain_config, env, swarm, pc, services, idx>>

\* mutant: no try/except inside the event loop, a failed services.get reaches
\* the outer except
EventGetFailsFatal ==
    /\ variant = "event"
    /\ pc = "events"
    /\ events # <<>>
    /\ events' = Tail(events)
    /\ pc' = "stopped"
    /\ last' = [OtherRec("get_failed") EXCEPT !.name = Head(events).name,
                                              !.action = Head(events).action,
                                              !.before = processed_services]
    /\ UNCHANGED <<variant, domain_config, env, swarm, processed_services, services,
                   idx, confirmed, retry>>

\* services.get(service_id) raises (the service is gone, or the API fails):
\* logged by the inner except, next event
EventGetFails ==
    /\ variant = "event"
    /\ pc = "events"
    /\ events # <<>>
    /\ events' = Tail(events)
    /\ last' = [OtherRec("get_failed") EXCEPT !.name = Head(events).name,
                                              !.action = Head(events).action,
                                              !.before = processed_services]
    /\ UNCHANGED <<variant, domain_config, env, swarm, processed_services, pc, services,
                   idx, confirmed, retry>>

(***************************************************************************)
(* The cluster changes under the engine                                    *)
(***************************************************************************)
\* the event the Docker daemon emits, delivered once the stream is subscribed
Emit(name, action) ==
    IF variant = "event" /\ pc = "events"
    THEN /\ Len(events) < MaxQueue
         /\ events' = Append(events, [name |-> name, action |-> action])
    ELSE events' = events

\* A pass walks the snapshot it listed and never reads the cluster again, so a
\* change made while a pass runs has the effect of the same change made right
\* after it: changes are taken between passes.
BetweenPasses == pc \notin {"process", "initial"}

\* docker service create / docker service update
Deploy ==
    /\ BetweenPasses
    /\ \E nm \in ServiceNames :
       \E l \in Deployable(nm) :
          /\ swarm[nm] # l
          /\ swarm' = [swarm EXCEPT ![nm] = l]
          /\ Emit(nm, IF swarm[nm] = NotDeployed THEN "create" ELSE "update")
    /\ last' = NoStep
    /\ retry' = NoRetry
    /\ UNCHANGED <<variant, domain_config, env, processed_services, pc, services, idx,
                   confirmed>>

\* docker service rm
Remove ==
    /\ BetweenPasses
    /\ \E nm \in ServiceNames :
          /\ swarm[nm] # NotDeployed
          /\ swarm' = [swarm EXCEPT ![nm] = NotDeployed]
          /\ Emit(nm, "remove")
    /\ last' = NoStep
    /\ retry' = NoRetry
    /\ UNCHANGED <<variant, domain_config, env, processed_services, pc, services, idx,
                   confirmed>>

Next ==
    \/ Main
    \/ PollList
    \/ PollListFails
    \/ PollProcess
    \/ EventList
    \/ EventListFails
    \/ EventInitial
    \/ EventSubscribe
    \/ EventStreamFails
    \/ EventDispatch
    \/ EventGetFails
    \/ Deploy
    \/ Remove

Spec == Init /\ [][Next]_vars

(***************************************************************************)
(* Properties                                                              *)
(***************************************************************************)
\* the last step ran the per-service processing (a poll pass, the initial
\* snapshot, or a dispatched event)
Processed == last.kind \in {"pass", "event"}
StepIds   == 1..Len(last.steps)
KeyOf(j)  == ServiceKey(last.name, last.steps[j].hostname)

\* C1: every key of the reconciliation set stands for a workload and hostname
\* for which a lookup found a record or a create call succeeded, and a key a pass
\* adds comes from a step of that very pass with one of these two outcomes.
C1_KeysConfirmed ==
    /\ \A k \in processed_services :
          \E p \in confirmed : k = ServiceKey(p[1], p[2])
    /\ Processed =>
          \A k \in processed_services \ last.before :
             \E j \in StepIds :
                /\ KeyOf(j) = k
                /\ last.steps[j].lookup = "found" \/ last.steps[j].create = "ok"

C1_Witness ==
    /\ Processed
    /\ \E j \in StepIds :
          /\ last.steps[j].create = "ok"
          /\ KeyOf(j) \in processed_services \ last.before

\* C2: a pass over a workload issues no lookup and no create for a hostname
\* whose key was in the reconciliation set when the pass began.
C2_NoCallsOnceSatisfied ==
    Processed =>
       \A j \in StepIds :
          KeyOf(j) \in last.before =>
             /\ last.steps[j].lookup = "none"
             /\ last.steps[j].create = "none"
             /\ last.steps[j].data = <<>>

C2_Witness ==
    /\ Processed
    /\ \E j \in StepIds :
          /\ last.steps[j].hostname = H_app
          /\ KeyOf(j) \in last.before
          /\ last.steps[j].outcome = "already"

\* C4: no step of the system, a remove event included, takes a key out of the
\* reconciliation set.
C4_Monotonic == [][processed_services \subseteq processed_services']_vars

C4_Witness ==
    /\ last.kind = "pass"
    /\ last.name = N_api
    /\ last.steps # <<>>
    /\ swarm[N_web] = NotDeployed
    /\ ServiceKey(N_web, H_app) \in processed_services

\* for each label mapping, the hostname of each of its rules, in rule order
RuleHosts ==
    [l \in LabelIds |->
        LET rules == TraefikRules(LabelSets[l], Len(LabelSets[l]))
        IN  [i \in 1..Len(rules) |-> extract_hostname_from_rule(rules[i])]]

\* some domain of the table ends hostname h
HasDomain(h) == \E i \in 1..Len(domain_config) : EndsWith(h, domain_config[i].domain)

\* the pass logged a lookup for hostname h
LookedUp(h) == \E j \in StepIds : last.steps[j].hostname = h /\ last.steps[j].lookup # "none"

\* in every logged step for h where the lookup reported not found and the
\* public address was set, a create call was sent
CreatedWhenDue(h) ==
    \A j \in StepIds :
       (/\ last.steps[j].hostname = h
        /\ last.steps[j].lookup = "notfound"
        /\ last.steps[j].ip # UnsetIp) => last.steps[j].create # "none"

\* hostnames the previous pass over the same service left undone and whose key
\* is still out of the set
OwedFailed == {h \in last.owed.failed : ServiceKey(last.name, h) \notin last.before}
OwedNoIp   == {h \in last.owed.no_ip : ServiceKey(last.name, h) \notin last.before}

\* an exception ended the pass before it reached a rule for hostname h
CutShortBefore(h) ==
    /\ last.caught \/ last.escaped
    /\ \A j \in StepIds : last.steps[j].hostname # h

\* step j did not add its key: it left the set as it was, and the key is in the
\* set after the pass only when another step of the pass, for the same
\* hostname, added it
NotAddedBy(j) ==
    /\ ~last.steps[j].marked
    /\ KeyOf(j) \in processed_services \ last.before =>
          \E k \in StepIds \ {j} :
             /\ last.steps[k].hostname = last.steps[j].hostname
             /\ last.steps[k].marked

\* a create call that reported failure left the set as it was
FailedCreateNotMarked ==
    Processed =>
       \A j \in StepIds :
          last.steps[j].create = "failed" =>
             /\ NotAddedBy(j)
             /\ KeyOf(j) \notin last.before

\* C3: a failed create leaves the key out of the set, and the next identical
\* pass over the workload looks the hostname up again and creates again when
\* the lookup reports not found and the public address is set.
C3_Original ==
    /\ FailedCreateNotMarked
    /\ (Processed /\ last.action # "remove") =>
          \A h \in OwedFailed :
             /\ LookedUp(h)
             /\ CreatedWhenDue(h)

\* The same for the passes no exception cuts short: as C3, unless an exception
\* raised by an earlier rule of the workload (a provider response without the
\* expected fields) ended the pass before the hostname's rule was reached.  The
\* last conjunct states it for every pass: each rule with a hostname, a domain
\* config and no key in the set is looked up, unless the pass was cut short.
C3_RetryUnlessCutShort ==
    /\ FailedCreateNotMarked
    /\ (Processed /\ last.action # "remove") =>
          \A h \in OwedFailed :
             \/ LookedUp(h) /\ CreatedWhenDue(h)
             \/ CutShortBefore(h)
    /\ (Processed /\ last.action # "remove") =>
          \A i \in 1..Len(RuleHosts[last.labelId]) :
             LET h == RuleHosts[last.labelId][i]
             IN  (/\ h # None
                  /\ HasDomain(h)
                  /\ ServiceKey(last.name, h) \notin last.before)
                 => \/ LookedUp(h) /\ CreatedWhenDue(h)
                    \/ CutShortBefore(h)

C3_Witness ==
    /\ Processed
    /\ H_api \in OwedFailed
    /\ \E j \in StepIds :
          /\ last.steps[j].hostname = H_api
          /\ last.steps[j].lookup = "notfound"
          /\ last.steps[j].create = "failed"

\* a step that found no record and no public address sent no create call and
\* left the set as it was
NoIpNotCreated ==
    Processed =>
       \A j \in StepIds :
          (last.steps[j].lookup = "notfound" /\ last.steps[j].ip = UnsetIp) =>
             /\ last.steps[j].create = "none"
             /\ last.steps[j].data = <<>>
             /\ NotAddedBy(j)
             /\ KeyOf(j) \notin last.before

\* C5: with the address unset and the lookup reporting not found no create
\* call is sent and the key is not added, and the next pass over the workload
\* processes the rule again.
C5_Original ==
    /\ NoIpNotCreated
    /\ (Processed /\ last.action # "remove") =>
          \A h \in OwedNoIp : LookedUp(h)

\* The same for the passes no exception cuts short: as C5, unless an exception
\* raised by an earlier rule of the workload ended the next pass before the
\* rule was reached.
C5_NoCreateWithoutAddress ==
    /\ NoIpNotCreated
    /\ (Processed /\ last.action # "remove") =>
          \A h \in OwedNoIp : LookedUp(h) \/ CutShortBefore(h)

C5_Witness ==
    /\ Processed
    /\ H_app \in OwedNoIp
    /\ \E j \in StepIds :
          /\ last.steps[j].hostname = H_app
          /\ last.steps[j].lookup = "notfound"
          /\ last.steps[j].ip = UnsetIp
          /\ last.steps[j].outcome = "no_ip"

\* C6: a rule whose hostname ends with no domain of the table sends no lookup
\* and no create, and its key is not in the set.
C6_NoConfigNoCalls ==
    Processed =>
       \A j \in StepIds :
          (/\ last.steps[j].hostname # None
           /\ ~HasDomain(last.steps[j].hostname))
          => /\ last.steps[j].lookup = "none"
             /\ last.steps[j].create = "none"
             /\ last.steps[j].data = <<>>
             /\ ~last.steps[j].marked
             /\ KeyOf(j) \notin processed_services

C6_Witness ==
    /\ Processed
    /\ \E j \in StepIds :
          /\ last.steps[j].hostname = H_sub
          /\ last.steps[j].outcome = "no_config"

\* C7: a create call is sent only in a step whose lookup, for the same
\* hostname, reported not found; a lookup that found a record marks the key
\* and sends no create, whatever the public address is.
C7_CreateOnlyAfterNotFound ==
    Processed =>
       \A j \in StepIds :
          /\ (last.steps[j].create # "none" \/ last.steps[j].data # <<>>) =>
                /\ last.steps[j].lookup = "notfound"
                /\ last.steps[j].data # <<>>
                /\ last.steps[j].data[1].name = last.steps[j].hostname
          /\ last.steps[j].lookup = "found" =>
                /\ last.steps[j].create = "none"
                /\ last.steps[j].data = <<>>
                /\ last.steps[j].marked
                /\ KeyOf(j) \in processed_services

C7_Witness ==
    /\ Processed
    /\ env.SWARM_PUBLIC_IP = Absent
    /\ env.PUBLIC_IP = Absent
    /\ \E j \in StepIds :
          /\ last.steps[j].lookup = "found"
          /\ KeyOf(j) \in processed_services \ last.before

\* C8: an exception raised while a service is processed never leaves the
\* per-service processing; the loop goes on to the next service of the listing
\* (or ends the pass after the last one) and the engine does not stop.
C8_ExceptionsCaught ==
    /\ ~last.escaped
    /\ (Processed /\ \E j \in StepIds :
                       last.steps[j].outcome \in {"lookup_raised", "create_raised"})
          => last.caught
    /\ last.caught => pc # "stopped"
    /\ (last.kind = "pass" /\ last.caught) =>
          IF last.idx < last.n
          THEN /\ pc \in {"process", "initial"}
               /\ idx = last.idx + 1
               /\ Len(services) = last.n
          ELSE pc \in {"list", "subscribe"}
    /\ (last.kind = "event" /\ last.caught) => pc = "events"

C8_Witness ==
    /\ variant = "poll"
    /\ last.kind = "pass"
    /\ last.caught
    /\ last.idx < last.n
    /\ pc = "process"
    /\ idx = 2

\* C9: handling a remove event sends no lookup and no create and leaves the
\* reconciliation set as it was.
C9_RemoveIsNoOp ==
    last.action = "remove" =>
       /\ last.kind \in {"event", "get_failed"}
       /\ last.steps = <<>>
       /\ processed_services = last.before

C9_Witness ==
    /\ last.kind = "event"
    /\ last.action = "remove"
    /\ last.steps = <<>>
    /\ ServiceKey(last.name, H_app) \in last.before

\* the proxy-setting entries of a label mapping, stated from the labels: the
\* toggle labels, the router name of each, and for a router name its place (the
\* first label that names it) and its value (the last label that names it)
ToggleIds(labels)  == {i \in 1..Len(labels) : EndsWith(labels[i][1], S_cfproxied)}
RouterAt(labels, i) == RouterName(labels[i][1])
FirstOf(labels, r) ==
    CHOOSE i \in ToggleIds(labels) :
       /\ RouterAt(labels, i) = r
       /\ \A k \in ToggleIds(labels) : RouterAt(labels, k) = r => i <= k
ValueOf(labels, r) ==
    LET i == CHOOSE m \in ToggleIds(labels) :
                /\ RouterAt(labels, m) = r
                /\ \A k \in ToggleIds(labels) : RouterAt(labels, k) = r => m >= k
    IN  Lower(labels[i][2]) = S_true

\* the proxied flag the claim expects for a rule of a service
ExpectedProxied(labels, rule, name) ==
    LET matching == {RouterAt(labels, i) : i \in
                        {k \in ToggleIds(labels) :
                            \/ Contains(rule, RouterAt(labels, k))
                            \/ Contains(name, RouterAt(labels, k))}}
    IN  IF matching = {} THEN TRUE
        ELSE LET first == CHOOSE r \in matching :
                             \A q \in matching : FirstOf(labels, r) <= FirstOf(labels, q)
             IN  ValueOf(labels, first)

\* C10: the proxied flag of a create call is true unless a proxy-setting entry's
\* router name occurs in the rule or in the service name, and then it is the
\* value of the first such entry in label order; service web with the label
\* traefik.http.routers.web.cloudflare.proxied = false sends proxied = false.
C10_ProxiedFirstMatch ==
    Processed =>
       \A j \in StepIds :
          last.steps[j].data # <<>> =>
             /\ last.steps[j].data[1].proxied =
                   ExpectedProxied(LabelSets[last.labelId], last.steps[j].rule, last.name)
             /\ (last.name = N_web /\ last.labelId = 3) =>
                   last.steps[j].data[1].proxied = FALSE
             /\ ToggleIds(LabelSets[last.labelId]) = {} =>
                   last.steps[j].data[1].proxied = TRUE

C10_Witness ==
    /\ Processed
    /\ last.name = N_web
    /\ last.labelId = 5
    /\ \E j \in StepIds :
          /\ last.steps[j].data # <<>>
          /\ last.steps[j].data[1].proxied = FALSE

\* C11: every create request has type A, the extracted hostname as name, the
\* public address obtained for that rule as content (never 0.0.0.0), ttl 1 when
\* proxied and ttl 300 when not; a service with the single rule of scenario 1,
\* no toggle, a lookup reporting not found and a set address sends exactly one
\* create request, with proxied true and ttl 1.
C11_CreateRequest ==
    Processed =>
       /\ \A j \in StepIds :
             LET st == last.steps[j]
             IN  /\ (st.create # "none") <=> (st.data # <<>>)
                 /\ Len(st.data) <= 1
                 /\ st.data # <<>> =>
                       LET d == st.data[1]
                       IN  /\ d.type = "A"
                           /\ d.name = st.hostname
                           /\ d.name # None
                           /\ d.content = st.ip
                           /\ d.content # UnsetIp
                           /\ d.content \in {env.SWARM_PUBLIC_IP, env.PUBLIC_IP} \ {Absent}
                           /\ d.proxied => d.ttl = 1
                           /\ ~d.proxied => d.ttl = 300
       /\ (/\ last.labelId = 2
           /\ last.steps # <<>>
           /\ last.steps[1].lookup = "notfound"
           /\ last.steps[1].ip # UnsetIp)
          => /\ Len(last.steps) = 1
             /\ last.steps[1].data =
                   << [type |-> "A", name |-> H_app, content |-> last.steps[1].ip,
                       proxied |-> TRUE, ttl |-> 1] >>

C11_Witness ==
    /\ Processed
    /\ last.name = N_web
    /\ last.labelId = 2
    /\ Len(last.steps) = 1
    /\ last.steps[1].create = "ok"
    /\ last.steps[1].data =
          << [type |-> "A", name |-> H_app, content |-> "1.2.3.4", proxied |-> TRUE,
              ttl |-> 1] >>

\* d is a string suffix of h
IsSuffix(d, h) == Len(d) <= Len(h) /\ SubSeq(h, Len(h) - Len(d) + 1, Len(h)) = d

\* the places of the table whose domain is a suffix of h
SuffixEntries(h) == {i \in 1..Len(domain_config) : IsSuffix(domain_config[i].domain, h)}

\* C12: the calls of a rule go to the zone of the first table entry, in table
\* order, whose domain is a suffix of the hostname (not the longest suffix); a
\* hostname no entry is a suffix of has no configuration; the table stays what
\* was loaded at startup.
C12_FirstSuffixMatch ==
    /\ pc \notin {"start", "exited"} => domain_config = load_config_from_env(env)
    /\ Processed =>
          \A j \in StepIds :
             LET st == last.steps[j]
             IN  (st.hostname # None /\ st.outcome # "already") =>
                    IF SuffixEntries(st.hostname) = {}
                    THEN /\ st.outcome = "no_config"
                         /\ st.zone_id = Absent
                    ELSE LET first == CHOOSE i \in SuffixEntries(st.hostname) :
                                         \A k \in SuffixEntries(st.hostname) : i <= k
                         IN  /\ st.outcome # "no_config"
                             /\ st.zone_id = domain_config[first].zone_id

C12_Witness ==
    /\ Processed
    /\ domain_config[1].domain = D_example
    /\ domain_config[2].domain = H_app
    /\ \E j \in StepIds :
          /\ last.steps[j].hostname = H_app
          /\ last.steps[j].lookup # "none"
          /\ last.steps[j].zone_id = "Z1"

\* label mappings none of whose keys contains the routing-rule marker
NoRuleKey == [l \in LabelIds |->
                 \A i \in 1..Len(LabelSets[l]) : ~Contains(LabelSets[l][i][1], S_rule)]

\* the router names of the proxy-toggle labels of label mapping l
ToggleRouters == [l \in LabelIds |->
                     {RouterAt(LabelSets[l], i) : i \in ToggleIds(LabelSets[l])}]

\* C13 as stated: a label mapping without a routing-rule key gives an empty
\* rule sequence and an empty proxy-setting mapping.
C13_Original ==
    (Processed /\ NoRuleKey[last.labelId]) =>
       /\ last.rules = <<>>
       /\ last.settings = <<>>

\* C13, amended: a label mapping without a routing-rule key gives an empty rule
\* sequence; its proxy-setting mapping has one entry for each router name of a
\* proxy-toggle label, so it is empty only when there is no such label.
C13_NoRuleKeyNoRules ==
    (Processed /\ NoRuleKey[last.labelId]) =>
       /\ last.rules = <<>>
       /\ last.steps = <<>>
       /\ last.action # "remove" =>
             /\ {last.settings[i][1] : i \in 1..Len(last.settings)}
                   = ToggleRouters[last.labelId]
             /\ Len(last.settings) = Cardinality(ToggleRouters[last.labelId])

C13_Witness ==
    /\ Processed
    /\ last.labelId = 9
    /\ last.action # "remove"
    /\ last.rules = <<>>
    /\ last.settings = << <<N_web, FALSE>> >>

\* the value of an environment variable, the sentinel when it is not set
EnvOrSentinel(name) == IF env[name] = Absent THEN UnsetIp ELSE env[name]

\* C14 as stated: the address is PUBLIC_IP when set, else SWARM_PUBLIC_IP when
\* set, and the sentinel only when neither is set, whatever the node state.
C14_Original ==
    Processed =>
       \A j \in StepIds :
          last.steps[j].info # "none" =>
             /\ last.steps[j].ip =
                   IF env.PUBLIC_IP # Absent THEN env.PUBLIC_IP
                   ELSE EnvOrSentinel("SWARM_PUBLIC_IP")
             /\ last.steps[j].ip = UnsetIp =>
                   (env.PUBLIC_IP = Absent /\ env.SWARM_PUBLIC_IP = Absent)

\* C14, amended: one variable is consulted, chosen by the node state:
\* SWARM_PUBLIC_IP on an active node, PUBLIC_IP on an inactive node or when the
\* info query fails; the address is the sentinel when that variable is not
\* set, whether or not the other one is.
C14_AddressByNodeState ==
    Processed =>
       \A j \in StepIds :
          /\ last.steps[j].info = "none" => last.steps[j].ip = Absent
          /\ last.steps[j].info = "active" =>
                last.steps[j].ip = EnvOrSentinel("SWARM_PUBLIC_IP")
          /\ last.steps[j].info \in {"inactive", "error"} =>
                last.steps[j].ip = EnvOrSentinel("PUBLIC_IP")
          /\ last.steps[j].info \in {"none"} \cup SwarmInfos

C14_Witness ==
    /\ Processed
    /\ env.SWARM_PUBLIC_IP = Absent
    /\ env.PUBLIC_IP = "5.6.7.8"
    /\ \E j \in StepIds :
          /\ last.steps[j].info = "active"
          /\ last.steps[j].ip = UnsetIp
    /\ \E j \in StepIds :
          /\ last.steps[j].info = "error"
          /\ last.steps[j].ip = "5.6.7.8"

\* C15: the lookup never raises to the engine: whatever the provider answers,
\* the lookup of a rule gives a record or not found, and after not found the
\* rule goes on to the create call when the public address is set.
C15_LookupNeverRaises ==
    Processed =>
       \A j \in StepIds :
          /\ last.steps[j].lookup \in {"none", "found", "notfound"}
          /\ last.steps[j].outcome # "lookup_raised"
          /\ (last.steps[j].lookup = "notfound" /\ last.steps[j].ip \notin {Absent, UnsetIp})
                => last.steps[j].create # "none"

\* an error met while one service or one event was handled: a failed
\* services.get, an exception, a provider failure, a missing address, a rule
\* without hostname or without domain configuration
HandlingError ==
    \/ last.kind = "get_failed"
    \/ /\ Processed
       /\ \/ last.caught
          \/ \E j \in StepIds :
                last.steps[j].outcome \in {"no_hostname", "no_config", "no_ip",
                                           "create_failed", "lookup_raised",
                                           "create_raised"}

\* after the last step the loop is where it handles the next service or event
LoopGoesOn ==
    /\ pc \notin {"stopped", "exited", "start"}
    /\ last.kind \in {"event", "get_failed"} => pc = "events"
    /\ last.kind = "pass" =>
          IF last.idx < last.n
          THEN pc \in {"process", "initial"} /\ idx = last.idx + 1
          ELSE pc \in {"list", "subscribe"}

\* C16 as stated: no error met while a service or an event is handled stops the
\* loop, and the monitoring operation is left only when the event subscription
\* cannot be started.
C16_Original ==
    [][/\ HandlingError' => LoopGoesOn'
       /\ (pc # "stopped" /\ pc' = "stopped") => last'.kind = "subscribe_failed"]_vars

\* C16, amended: no error met while a service or an event is handled stops the
\* loop; the event engine's monitoring operation is left when the initial
\* listing fails, when the subscription cannot be started or when the event
\* stream itself fails, and the polling loop is never left.
C16_LoopSurvivesHandlingErrors ==
    [][/\ HandlingError' => LoopGoesOn'
       /\ (pc # "stopped" /\ pc' = "stopped") =>
             /\ variant = "event"
             /\ last'.kind \in {"list_failed", "subscribe_failed", "stream_failed"}
       /\ last'.kind \in {"list_failed", "subscribe_failed", "stream_failed"} =>
             (pc' = "stopped" <=> variant = "event")
       /\ pc = "stopped" => pc' = "stopped"]_vars

C16_Witness ==
    /\ variant = "event"
    /\ pc = "events"
    /\ last.kind = "event"
    /\ last.caught
    /\ \E j \in StepIds : last.steps[j].outcome = "create_raised"

\* C17: with CLOUDFLARE_DOMAINS unset, empty or not JSON the process never
\* enters the loop: it lists no service, consumes no event and makes no provider
\* call.
C17_NoConfigNoLoop ==
    env.CLOUDFLARE_DOMAINS \in {Absent, J_empty, J_malformed} =>
       /\ pc \in {"start", "exited"}
       /\ last.kind \in {"none", "main"}
       /\ last.steps = <<>>
       /\ domain_config = <<>>
       /\ services = <<>>
       /\ events = <<>>
       /\ processed_services = {}
       /\ confirmed = {}

C17_Witness ==
    /\ pc = "exited"
    /\ last.kind = "main"
    /\ env.CLOUDFLARE_DOMAINS = J_malformed
    /\ variant = "poll"
    /\ swarm[N_web] = 2

\* the outcomes that skip a rule without an exception
Skips == {"no_hostname", "already", "no_config", "no_ip", "create_failed"}

\* the reconciliation set as step k of the last pass found it
SetAt(k) ==
    last.before \cup {KeyOf(i) : i \in {m \in StepIds : m < k /\ last.steps[m].marked}}

\* step k went through extraction, key check, domain resolution and lookup, each
\* one deciding whether the next is reached
FullyProcessed(k) ==
    LET st == last.steps[k]
    IN  /\ st.rule = last.rules[k]
        /\ st.outcome = "no_hostname" <=> st.hostname = None
        /\ st.hostname # None =>
              /\ st.outcome = "already" <=> KeyOf(k) \in SetAt(k)
              /\ KeyOf(k) \notin SetAt(k) =>
                    /\ st.outcome = "no_config" <=> ~HasDomain(st.hostname)
                    /\ HasDomain(st.hostname) => st.lookup # "none"
                    /\ (st.lookup = "notfound" /\ st.ip # UnsetIp) => st.create # "none"

\* C18: in a pass over a service, a rule that is skipped (no hostname, key
\* already in the set, no domain configuration, no public address, create
\* reported failure) is followed by the processing of the next rule, and every
\* rule the pass reaches goes through extraction, key check, domain resolution
\* and lookup/create.
C18_SkipKeepsLaterRules ==
    (Processed /\ last.action # "remove") =>
       /\ Len(last.steps) <= Len(last.rules)
       /\ \A k \in StepIds : FullyProcessed(k)
       /\ \A j \in StepIds :
             (last.steps[j].outcome \in Skips /\ j < Len(last.rules)) => j + 1 \in StepIds
       /\ Len(last.steps) < Len(last.rules) =>
             /\ last.steps # <<>>
             /\ last.steps[Len(last.steps)].outcome \in {"lookup_raised", "create_raised"}

C18_Witness ==
    /\ Processed
    /\ last.labelId = 6
    /\ Len(last.steps) = 3
    /\ last.steps[1].outcome = "no_hostname"
    /\ last.steps[2].outcome = "no_config"
    /\ last.steps[3].hostname = H_api
    /\ last.steps[3].create = "failed"

\* C19: a create call that reports success is the first for its service and
\* hostname: no earlier pass had a successful create (or a found lookup) for the
\* pair, and no earlier rule of the same pass had one, also when several rules
\* of the service name the same hostname.
C19_AtMostOneSuccessfulCreate ==
    [][last'.kind \in {"pass", "event"} =>
          \A j \in 1..Len(last'.steps) :
             last'.steps[j].create = "ok" =>
                /\ <<last'.name, last'.steps[j].hostname>> \notin confirmed
                /\ <<last'.name, last'.steps[j].hostname>> \in confirmed'
                /\ ServiceKey(last'.name, last'.steps[j].hostname) \in processed_services'
                /\ \A k \in 1..(j - 1) :
                      last'.steps[k].hostname = last'.steps[j].hostname =>
                         last'.steps[k].create # "ok"]_vars

C19_Witness ==
    /\ Processed
    /\ last.labelId = 8
    /\ Len(last.steps) = 2
    /\ last.steps[1].hostname = H_app
    /\ last.steps[1].create = "ok"
    /\ last.steps[2].hostname = H_app
    /\ last.steps[2].outcome = "already"

(***************************************************************************)
(* The polling process alone, scheduled fairly: main returns or enters the *)
(* loop, and the loop body runs again after each time.sleep                *)
(***************************************************************************)
InitPoll == Init /\ variant = "poll"

NextPoll ==
    \/ Main
    \/ PollList
    \/ PollListFails
    \/ PollProcess
    \/ Deploy
    \/ Remove

SpecPoll ==
    /\ InitPoll
    /\ [][NextPoll]_vars
    /\ WF_vars(Main)
    /\ WF_vars(PollList)
    /\ []<>(pc # "process")   \* WF_vars(PollProcess): the for loop over the listing
                              \* takes its next step until the pass is over

\* the configuration names a domain for the hostnames of example.com
ConfigLoaded == env.CLOUDFLARE_DOMAINS \in {J_wide, J_narrow}

\* the last pass met no missing address and no failing provider call
Healthy ==
    last.kind = "pass" =>
       \A j \in StepIds :
          last.steps[j].outcome \notin {"no_ip", "create_failed", "lookup_raised",
                                        "create_raised"}

\* from some point on service web stays deployed with label mapping l, the
\* address is set and the provider calls succeed
SettledWith(l) == ConfigLoaded /\ swarm[N_web] = l /\ Healthy

\* no pass over web that began with the key of h in the set called the provider
\* for h
QuietOnceAdded(h) ==
    (last.kind = "pass" /\ last.name = N_web /\ ServiceKey(N_web, h) \in last.before) =>
       \A j \in StepIds :
          last.steps[j].hostname = h =>
             last.steps[j].lookup = "none" /\ last.steps[j].create = "none"

\* C20: in the polling loop, when service web stays listed with an unchanged
\* rule whose hostname has a domain configuration and from some point on the
\* address is set and the provider calls succeed, the key of the hostname is
\* eventually in the reconciliation set, and once it is there no pass calls the
\* provider for it.
\* (the set only grows, so "settled from some point on implies eventually in the
\* set" is stated as: again and again, settled implies in the set)
C20_EventuallyReconciled ==
    /\ []<>(SettledWith(2) => ServiceKey(N_web, H_app) \in processed_services)
    /\ []<>(SettledWith(6) => ServiceKey(N_web, H_api) \in processed_services)
    /\ []<>(SettledWith(7) => ServiceKey(N_web, H_api) \in processed_services)
    /\ [](QuietOnceAdded(H_app) /\ QuietOnceAdded(H_api))

C20_Witness ==
    /\ variant = "poll"
    /\ last.kind = "pass"
    /\ last.name = N_web
    /\ last.labelId = 7
    /\ swarm[N_web] = 7
    /\ retry.no_ip = {H_app}
    /\ H_api \in last.owed.failed
    /\ ServiceKey(N_web, H_api) \in processed_services \ last.before

====
